---- MODULE Spec2Model ----
(***************************************************************************)
(* A model of libstratcom (src/src/stratcom.cpp): the cached device state  *)
(* of a stratcom_device handle, the HID feature/input report codec, and    *)
(* the event list built from two input states.                             *)
(***************************************************************************)
EXTENDS Integers, Sequences, FiniteSets, TLC

VARIABLES
    device,             \* "null" or "open": the stratcom_device* the caller holds
    hid_conns,          \* number of hid_device connections currently open
    led_button_state,   \* stratcom_device_::led_button_state (uint16)
    led_button_state_has_unflushed_changes,     \* stratcom_device_, same name
    blink_state,        \* stratcom_device_::blink_state
    input_state,        \* stratcom_device_::input_state
    hid_led,            \* <<b1, b2>> of feature report 0x01 as held by the hardware
    hid_blink,          \* <<b1, b2>> of feature report 0x02 as held by the hardware
    hid_input,          \* the input report the hardware has pending, <<>> when none
    op,                 \* name of the last API call
    args,               \* its arguments
    ret,                \* its return value
    hid_calls,          \* the hidapi calls the last API call made, in order
    old_state,          \* stratcom_input_state* old_state of the event functions
    new_state,          \* stratcom_input_state* new_state of the event functions
    heap,               \* allocated stratcom_input_event nodes, by address
    events,             \* list head the caller holds (0 is nullptr)
    bad_alloc,          \* whether operator new threw in the last event call
    allocated,          \* how many events the last event call allocated
    button_it,          \* the stratcom_button b of a loop over the buttons
    visited             \* the buttons the body of that loop has run for

devVars == <<device, hid_conns, led_button_state, led_button_state_has_unflushed_changes, blink_state, input_state>>
hidVars == <<hid_led, hid_blink, hid_input>>
callVars == <<op, args, ret, hid_calls>>
evVars == <<old_state, new_state, heap, events, bad_alloc, allocated>>
iterVars == <<button_it, visited>>
vars == <<devVars, hidVars, callVars, evVars, iterVars>>

----------------------------------------------------------------------------
(* Bounds of the model *)

\* how many of the 7 button LEDs the set-LED calls of Spec address
NumLeds == 1
\* blink times written and held by the hardware range over 0..MaxBlink
MaxBlink == 1
\* the allocation that throws std::bad_alloc is one of the first MaxFailAt
MaxFailAt == 4
\* hid_device connections that may be open at once
MaxConns == 2
\* stratcom_append_input_events_from_states is called with lists of up to
\* MaxListLen events
MaxListLen == 5

----------------------------------------------------------------------------
(* C++ integer operators on non-negative values *)

RECURSIVE BitAnd(_, _)
BitAnd(a, b) ==
    IF a = 0 \/ b = 0 THEN 0
    ELSE (a % 2) * (b % 2) + 2 * BitAnd(a \div 2, b \div 2)

RECURSIVE BitOr(_, _)
BitOr(a, b) ==
    IF a = 0 THEN b
    ELSE IF b = 0 THEN a
    ELSE (IF a % 2 = 1 \/ b % 2 = 1 THEN 1 ELSE 0) + 2 * BitOr(a \div 2, b \div 2)

RECURSIVE BitXor(_, _)
BitXor(a, b) ==
    IF a = 0 THEN b
    ELSE IF b = 0 THEN a
    ELSE ((a + b) % 2) + 2 * BitXor(a \div 2, b \div 2)

Shl(a, n) == a * (2 ^ n)

Shr(a, n) == a \div (2 ^ n)

\* ~a on an int: the low 31 bits of the pattern (the sign bit, which is set, never
\* survives the & with a promoted uint16 that follows)
BitNot(a) == 2147483647 - a

\* conversion to std::uint16_t / std::uint8_t
U16(a) == a % (2 ^ 16)

U8(a) == a % (2 ^ 8)

----------------------------------------------------------------------------
(* Enumerations of stratcom.h *)

STRATCOM_LEDBUTTON_1 == 1
STRATCOM_LEDBUTTON_2 == 4
STRATCOM_LEDBUTTON_3 == 16
STRATCOM_LEDBUTTON_4 == 64
STRATCOM_LEDBUTTON_5 == 256
STRATCOM_LEDBUTTON_6 == 1024
STRATCOM_LEDBUTTON_REC == 4096
STRATCOM_LEDBUTTON_ALL == 5461
STRATCOM_LEDBUTTON_NONE == 0

\* the 7 button LEDs, in the order of the enumeration
LedButtons ==
    << STRATCOM_LEDBUTTON_1, STRATCOM_LEDBUTTON_2, STRATCOM_LEDBUTTON_3,
       STRATCOM_LEDBUTTON_4, STRATCOM_LEDBUTTON_5, STRATCOM_LEDBUTTON_6,
       STRATCOM_LEDBUTTON_REC >>

LedStates == {"STRATCOM_LED_ON", "STRATCOM_LED_BLINK", "STRATCOM_LED_OFF"}

STRATCOM_BUTTON_1 == 1
STRATCOM_BUTTON_2 == 2
STRATCOM_BUTTON_3 == 4
STRATCOM_BUTTON_4 == 8
STRATCOM_BUTTON_5 == 16
STRATCOM_BUTTON_6 == 32
STRATCOM_BUTTON_PLUS == 64
STRATCOM_BUTTON_MINUS == 128
STRATCOM_BUTTON_SHIFT1 == 256
STRATCOM_BUTTON_SHIFT2 == 512
STRATCOM_BUTTON_SHIFT3 == 1024
STRATCOM_BUTTON_REC == 2048
STRATCOM_BUTTON_NONE == 0

\* stratcom_slider_state is written by name: "STRATCOM_SLIDER_1" .. "STRATCOM_SLIDER_3",
\* and "STRATCOM_SLIDER_UNKNOWN" for the value memset(0) leaves

----------------------------------------------------------------------------
(* The hidapi transport *)

\* what hid_send_feature_report and hid_get_feature_report can return for a
\* 3-byte buffer: failure, a short count, the full count
FeatureResults == {-1, 2, 3}

\* what hid_read / hid_read_timeout can return for a 7-byte buffer
ReadResults == {-1, 0, 3, 7}

HidCall(fn, data, res) == [fn |-> fn, data |-> data, res |-> res]

\* the hardware stores a feature report that was written in full
HidStore(held, report, res) == IF res = 3 THEN <<report[2], report[3]>> ELSE held

----------------------------------------------------------------------------
(* stratcom_device_ *)

ZeroInput ==
    [buttons |-> 0, slider |-> "STRATCOM_SLIDER_UNKNOWN",
     axisX |-> 0, axisY |-> 0, axisZ |-> 0]

ZeroBlink == [on_time |-> 0, off_time |-> 0]

\* the members after the constructor has run
Constructed ==
    [led_button_state |-> 0, led_button_state_has_unflushed_changes |-> TRUE,
     blink_state |-> ZeroBlink, input_state |-> ZeroInput]

\* the members of the handle, as one record
Dev ==
    [led_button_state |-> led_button_state, led_button_state_has_unflushed_changes |-> led_button_state_has_unflushed_changes,
     blink_state |-> blink_state, input_state |-> input_state]

SetDev(d) ==
    /\ led_button_state' = d.led_button_state
    /\ led_button_state_has_unflushed_changes' = d.led_button_state_has_unflushed_changes
    /\ blink_state' = d.blink_state
    /\ input_state' = d.input_state

\* the hardware after the hidapi calls of one API call
RECURSIVE HidAfter(_, _, _)
HidAfter(held, id, calls) ==
    IF calls = <<>> THEN held
    ELSE LET c == Head(calls) IN
         HidAfter(IF c.fn = "hid_send_feature_report" /\ c.data[1] = id
                  THEN HidStore(held, c.data, c.res) ELSE held,
                  id, Tail(calls))

\* what one API call leaves behind: the members, the return value, the hidapi calls
Done(name, a, r) ==
    /\ SetDev(r.d)
    /\ op' = name
    /\ args' = a
    /\ ret' = r.ret
    /\ hid_calls' = r.calls
    /\ hid_led' = HidAfter(hid_led, 1, r.calls)
    /\ hid_blink' = HidAfter(hid_blink, 2, r.calls)

----------------------------------------------------------------------------
(* LED state *)

\* a getter that looks for the blink-bit below the on-bit
get_blink_bit_below(d, led) ==
    IF led = STRATCOM_LEDBUTTON_ALL \/ led = STRATCOM_LEDBUTTON_NONE
    THEN "STRATCOM_LED_OFF"
    ELSE IF BitAnd(d.led_button_state, led) # 0 THEN "STRATCOM_LED_ON"
    ELSE IF BitAnd(d.led_button_state, Shr(led, 1)) # 0 THEN "STRATCOM_LED_BLINK"
    ELSE "STRATCOM_LED_OFF"

\* a getter without the test for the ALL and NONE selectors
get_without_selector_test(d, led) ==
    IF BitAnd(d.led_button_state, led) # 0 THEN "STRATCOM_LED_ON"
    ELSE IF BitAnd(d.led_button_state, Shl(led, 1)) # 0 THEN "STRATCOM_LED_BLINK"
    ELSE "STRATCOM_LED_OFF"

stratcom_get_button_led_state(d, led) ==
    IF led = STRATCOM_LEDBUTTON_ALL \/ led = STRATCOM_LEDBUTTON_NONE
    THEN "STRATCOM_LED_OFF"
    ELSE IF BitAnd(d.led_button_state, led) # 0 THEN "STRATCOM_LED_ON"
    ELSE IF BitAnd(d.led_button_state, Shl(led, 1)) # 0 THEN "STRATCOM_LED_BLINK"
    ELSE "STRATCOM_LED_OFF"

\* a setter whose BLINK case does not clear the on-bit
set_without_clearing_on_bit(d, led, state) ==
    LET button_mask == U16(led)
        m == d.led_button_state
        m2 == CASE state = "STRATCOM_LED_BLINK" -> U16(BitOr(m, Shl(button_mask, 1)))
                [] state = "STRATCOM_LED_ON" ->
                     U16(BitOr(U16(BitAnd(m, BitNot(Shl(button_mask, 1)))), button_mask))
                [] state = "STRATCOM_LED_OFF" ->
                     U16(BitAnd(U16(BitAnd(m, BitNot(button_mask))),
                                BitNot(Shl(button_mask, 1))))
                [] OTHER -> m
    IN  [d EXCEPT !.led_button_state = m2, !.led_button_state_has_unflushed_changes = TRUE]

\* a setter that marks the cache dirty only when the mask changes
set_dirty_on_change(d, led, state) ==
    LET button_mask == U16(led)
        m == d.led_button_state
        m2 == CASE state = "STRATCOM_LED_BLINK" ->
                     U16(BitOr(U16(BitAnd(m, BitNot(button_mask))), Shl(button_mask, 1)))
                [] state = "STRATCOM_LED_ON" ->
                     U16(BitOr(U16(BitAnd(m, BitNot(Shl(button_mask, 1)))), button_mask))
                [] state = "STRATCOM_LED_OFF" ->
                     U16(BitAnd(U16(BitAnd(m, BitNot(button_mask))),
                                BitNot(Shl(button_mask, 1))))
                [] OTHER -> m
    IN  [d EXCEPT !.led_button_state = m2, !.led_button_state_has_unflushed_changes = d.led_button_state_has_unflushed_changes \/ m2 # m]

stratcom_set_button_led_state_without_flushing(d, led, state) ==
    LET button_mask == U16(led)
        m == d.led_button_state
        m2 == CASE state = "STRATCOM_LED_BLINK" ->
                     U16(BitOr(U16(BitAnd(m, BitNot(button_mask))), Shl(button_mask, 1)))
                [] state = "STRATCOM_LED_ON" ->
                     U16(BitOr(U16(BitAnd(m, BitNot(Shl(button_mask, 1)))), button_mask))
                [] state = "STRATCOM_LED_OFF" ->
                     U16(BitAnd(U16(BitAnd(m, BitNot(button_mask))),
                                BitNot(Shl(button_mask, 1))))
                [] OTHER -> m
    IN  [d EXCEPT !.led_button_state = m2, !.led_button_state_has_unflushed_changes = TRUE]

\* a report whose b2 is taken without the shift
LedReportUnshifted(m) == << 1, U8(BitAnd(m, 255)), U8(BitAnd(m, 65280)) >>

\* the feature report stratcom_flush_button_led_state fills in
LedReport(m) == << 1, U8(BitAnd(m, 255)), U8(BitAnd(Shr(m, 8), 255)) >>

\* a flush that clears the flag before it looks at the result of the write
flush_clearing_first(d, res) ==
    LET report == LedReport(d.led_button_state)
        calls == << HidCall("hid_send_feature_report", report, res) >>
    IN  [d |-> [d EXCEPT !.led_button_state_has_unflushed_changes = FALSE],
         ret |-> IF res # 3 THEN "STRATCOM_RET_ERROR" ELSE "STRATCOM_RET_SUCCESS",
         calls |-> calls]

stratcom_flush_button_led_state(d, res) ==
    LET report == LedReport(d.led_button_state)
        calls == << HidCall("hid_send_feature_report", report, res) >>
    IN  IF res # 3
        THEN [d |-> d, ret |-> "STRATCOM_RET_ERROR", calls |-> calls]
        ELSE [d |-> [d EXCEPT !.led_button_state_has_unflushed_changes = FALSE],
              ret |-> "STRATCOM_RET_SUCCESS", calls |-> calls]

\* a flushing setter that puts the old mask back when the write fails
set_reverting_on_error(d, led, state, res) ==
    LET r == stratcom_flush_button_led_state(
                 stratcom_set_button_led_state_without_flushing(d, led, state), res)
    IN  IF r.ret = "STRATCOM_RET_ERROR" THEN [r EXCEPT !.d = d] ELSE r

stratcom_set_button_led_state(d, led, state, res) ==
    stratcom_flush_button_led_state(
        stratcom_set_button_led_state_without_flushing(d, led, state), res)

stratcom_led_state_has_unflushed_changes(d) == d.led_button_state_has_unflushed_changes

\* the led_button_state stratcom_read_button_led_state computes from the report
LedStateOf(rep) == U16(BitOr(rep[2], Shl(rep[3], 8)))

\* a read that clears the flag and keeps the cached mask
read_led_clearing_only(d, res, rep) ==
    LET calls == << HidCall("hid_get_feature_report", <<1>>, res) >>
    IN  IF res # 3
        THEN [d |-> d, ret |-> "STRATCOM_RET_ERROR", calls |-> calls]
        ELSE [d |-> [d EXCEPT !.led_button_state_has_unflushed_changes = FALSE],
              ret |-> "STRATCOM_RET_SUCCESS", calls |-> calls]

stratcom_read_button_led_state(d, res, rep) ==
    LET calls == << HidCall("hid_get_feature_report", <<1>>, res) >>
    IN  IF res # 3
        THEN [d |-> d, ret |-> "STRATCOM_RET_ERROR", calls |-> calls]
        ELSE [d |-> [d EXCEPT !.led_button_state = LedStateOf(rep),
                              !.led_button_state_has_unflushed_changes = FALSE],
              ret |-> "STRATCOM_RET_SUCCESS", calls |-> calls]

----------------------------------------------------------------------------
(* LED blink interval *)

\* <<*out_on_time, *out_off_time>>
stratcom_get_led_blink_interval(d) == << d.blink_state.on_time, d.blink_state.off_time >>

stratcom_set_led_blink_interval(d, on_time, off_time, res) ==
    LET report == << 2, on_time, off_time >>
        calls == << HidCall("hid_send_feature_report", report, res) >>
    IN  IF res # 3
        THEN [d |-> d, ret |-> "STRATCOM_RET_ERROR", calls |-> calls]
        ELSE [d |-> d, ret |-> "STRATCOM_RET_SUCCESS", calls |-> calls]

\* a read that takes the on time from b2 and the off time from b1
read_blink_swapped(d, res, rep) ==
    LET calls == << HidCall("hid_get_feature_report", <<2>>, res) >>
    IN  IF res # 3
        THEN [d |-> d, ret |-> "STRATCOM_RET_ERROR", calls |-> calls]
        ELSE [d |-> [d EXCEPT !.blink_state = [on_time |-> rep[3], off_time |-> rep[2]]],
              ret |-> "STRATCOM_RET_SUCCESS", calls |-> calls]

stratcom_read_led_blink_intervals(d, res, rep) ==
    LET calls == << HidCall("hid_get_feature_report", <<2>>, res) >>
    IN  IF res # 3
        THEN [d |-> d, ret |-> "STRATCOM_RET_ERROR", calls |-> calls]
        ELSE [d |-> [d EXCEPT !.blink_state = [on_time |-> rep[2], off_time |-> rep[3]]],
              ret |-> "STRATCOM_RET_SUCCESS", calls |-> calls]

----------------------------------------------------------------------------
(* Input report *)

\* a sign extension that forgets the + 1
AxisWordOnesComplement(raw) ==
    IF BitAnd(raw, 512) # 0 THEN -(BitXor(raw, 1023)) ELSE raw

\* the two's-complement reading evaluateInputReport gives a raw axis field
AxisWord(raw) ==
    IF BitAnd(raw, 512) # 0 THEN -(BitXor(raw, 1023) + 1) ELSE raw

\* a decoder that fills in the buttons before it looks at b0
evaluate_before_check(report, in) ==
    IF report[1] # 1
    THEN [ret |-> "STRATCOM_RET_ERROR",
          input_state |->
              [in EXCEPT !.buttons = U16(BitOr(Shl(BitAnd(report[7], 15), 8), report[6]))]]
    ELSE [ret |-> "STRATCOM_RET_SUCCESS", input_state |-> in]

\* a decoder that takes Slider1 only for b6 = 0x30 and keeps all of b6 in the
\* buttons word
evaluate_whole_b6(report, in) ==
    LET b1 == report[2]
        b2 == report[3]
        b3 == report[4]
        b4 == report[5]
        b5 == report[6]
        b6 == report[7]
    IN  IF report[1] # 1
        THEN [ret |-> "STRATCOM_RET_ERROR", input_state |-> in]
        ELSE [ret |-> "STRATCOM_RET_SUCCESS",
              input_state |->
                [buttons |-> U16(BitOr(Shl(b6, 8), b5)),
                 slider |-> IF b6 = 48 THEN "STRATCOM_SLIDER_1"
                            ELSE IF BitAnd(b6, 32) # 0 THEN "STRATCOM_SLIDER_2"
                            ELSE "STRATCOM_SLIDER_3",
                 axisX |-> AxisWord(BitOr(Shl(BitAnd(b2, 3), 8), b1)),
                 axisY |-> AxisWord(BitOr(Shl(BitAnd(b3, 15), 6), Shr(BitAnd(b2, 252), 2))),
                 axisZ |-> AxisWord(BitOr(Shl(BitAnd(b4, 63), 4), Shr(BitAnd(b3, 240), 4)))]]

\* report is <<b0, b1, b2, b3, b4, b5, b6>>
evaluateInputReport(report, in) ==
    LET b1 == report[2]
        b2 == report[3]
        b3 == report[4]
        b4 == report[5]
        b5 == report[6]
        b6 == report[7]
    IN  IF report[1] # 1
        THEN [ret |-> "STRATCOM_RET_ERROR", input_state |-> in]
        ELSE [ret |-> "STRATCOM_RET_SUCCESS",
              input_state |->
                [buttons |-> U16(BitOr(Shl(BitAnd(b6, 15), 8), b5)),
                 slider |-> IF BitAnd(b6, 48) = 48 THEN "STRATCOM_SLIDER_1"
                            ELSE IF BitAnd(b6, 32) # 0 THEN "STRATCOM_SLIDER_2"
                            ELSE "STRATCOM_SLIDER_3",
                 axisX |-> AxisWord(BitOr(Shl(BitAnd(b2, 3), 8), b1)),
                 axisY |-> AxisWord(BitOr(Shl(BitAnd(b3, 15), 6), Shr(BitAnd(b2, 252), 2))),
                 axisZ |-> AxisWord(BitOr(Shl(BitAnd(b4, 63), 4), Shr(BitAnd(b3, 240), 4)))]]

\* the part shared by the three read functions: res is what the hidapi read
\* returned, report what it put into the buffer
ReadInput(d, nonblock, fn, no_data, res, report) ==
    LET calls == << HidCall("hid_set_nonblocking", <<nonblock>>, 0),
                    HidCall(fn, IF res = 7 THEN report ELSE <<>>, res) >>
    IN  IF res = 7
        THEN LET e == evaluateInputReport(report, d.input_state)
             IN  [d |-> [d EXCEPT !.input_state = e.input_state],
                  ret |-> e.ret, calls |-> calls]
        ELSE IF no_data /\ res = 0
        THEN [d |-> d, ret |-> "STRATCOM_RET_NO_DATA", calls |-> calls]
        ELSE [d |-> d, ret |-> "STRATCOM_RET_ERROR", calls |-> calls]

\* a blocking read with the else-if of the other two variants
read_input_with_no_data(d, res, report) ==
    ReadInput(d, 0, "hid_read", TRUE, res, report)

stratcom_read_input(d, res, report) ==
    ReadInput(d, 0, "hid_read", FALSE, res, report)

stratcom_read_input_with_timeout(d, res, report) ==
    ReadInput(d, 0, "hid_read_timeout", TRUE, res, report)

stratcom_read_input_non_blocking(d, res, report) ==
    ReadInput(d, 1, "hid_read", TRUE, res, report)

----------------------------------------------------------------------------
(* Opening and closing *)

\* an open that gives no handle when the initial read of the LED mask fails
open_requiring_led_read(open_ok, new_ok, res_led, rep_led, res_blink, rep_blink) ==
    LET opening == << HidCall("hid_open_path", <<>>, IF open_ok THEN 1 ELSE 0) >>
    IN  IF ~open_ok
        THEN [device |-> "null", conns |-> 0, d |-> Constructed, calls |-> opening]
        ELSE IF ~new_ok
        THEN [device |-> "null", conns |-> 1, d |-> Constructed, calls |-> opening]
        ELSE LET r1 == stratcom_read_button_led_state(Constructed, res_led, rep_led)
                 r2 == stratcom_read_led_blink_intervals(r1.d, res_blink, rep_blink)
             IN  IF r1.ret = "STRATCOM_RET_ERROR"
                 THEN [device |-> "null", conns |-> 0, d |-> Constructed,
                       calls |-> opening \o r1.calls
                                   \o << HidCall("hid_close", <<>>, 0) >>]
                 ELSE [device |-> "open", conns |-> 1, d |-> r2.d,
                       calls |-> opening \o r1.calls \o r2.calls]

\* open_ok: hid_open_path returned a device; new_ok: new (std::nothrow) did not fail
stratcom_open_device_on_path(open_ok, new_ok, res_led, rep_led, res_blink, rep_blink) ==
    LET opening == << HidCall("hid_open_path", <<>>, IF open_ok THEN 1 ELSE 0) >>
    IN  IF ~open_ok
        THEN [device |-> "null", conns |-> 0, d |-> Constructed, calls |-> opening]
        ELSE IF ~new_ok
        THEN [device |-> "null", conns |-> 1, d |-> Constructed, calls |-> opening]
        ELSE LET r1 == stratcom_read_button_led_state(Constructed, res_led, rep_led)
                 r2 == stratcom_read_led_blink_intervals(r1.d, res_blink, rep_blink)
             IN  [device |-> "open", conns |-> 1, d |-> r2.d,
                  calls |-> opening \o r1.calls \o r2.calls]

\* found: hid_enumerate returned a device info list
stratcom_open_device(found, open_ok, new_ok, res_led, rep_led, res_blink, rep_blink) ==
    LET enumerating == << HidCall("hid_enumerate", <<>>, IF found THEN 1 ELSE 0) >>
    IN  IF ~found
        THEN [device |-> "null", conns |-> 0, d |-> Constructed, calls |-> enumerating]
        ELSE LET r == stratcom_open_device_on_path(open_ok, new_ok, res_led, rep_led,
                                                   res_blink, rep_blink)
             IN  [r EXCEPT !.calls = enumerating \o r.calls
                                       \o << HidCall("hid_free_enumeration", <<>>, 0) >>]

----------------------------------------------------------------------------
(* The API calls as actions *)

NoEvents == UNCHANGED evVars

\* the LED selectors the set-LED calls are made with
LedArgs ==
    {LedButtons[i] : i \in 1..NumLeds}
        \cup {STRATCOM_LEDBUTTON_ALL, STRATCOM_LEDBUTTON_NONE}

\* the input reports the hardware delivers in SpecInput
InputReports ==
    { <<1, 0, 0, 0, 0, 0, 0>>,
      <<1, 255, 1, 0, 0, 4, 48>>,
      <<1, 0, 2, 240, 63, 0, 40>>,
      <<2, 255, 1, 0, 0, 4, 48>>,
      <<0, 7, 7, 7, 7, 7, 7>> }

OpenDeviceOnPath ==
    /\ device = "null"
    /\ hid_conns < MaxConns
    /\ \E open_ok \in BOOLEAN, new_ok \in BOOLEAN, res_led \in FeatureResults,
          res_blink \in FeatureResults :
         LET r == stratcom_open_device_on_path(open_ok, new_ok,
                      res_led, <<1, hid_led[1], hid_led[2]>>,
                      res_blink, <<2, hid_blink[1], hid_blink[2]>>)
         IN  /\ device' = r.device
             /\ hid_conns' = hid_conns + r.conns
             /\ Done("stratcom_open_device_on_path", <<>>,
                     [d |-> IF r.device = "open" THEN r.d ELSE Dev,
                      ret |-> r.device, calls |-> r.calls])
    /\ UNCHANGED hid_input
    /\ NoEvents
    /\ UNCHANGED iterVars

OpenDevice ==
    /\ device = "null"
    /\ hid_conns < MaxConns
    /\ \E found \in BOOLEAN, open_ok \in BOOLEAN, new_ok \in BOOLEAN,
          res_led \in FeatureResults, res_blink \in FeatureResults :
         LET r == stratcom_open_device(found, open_ok, new_ok,
                      res_led, <<1, hid_led[1], hid_led[2]>>,
                      res_blink, <<2, hid_blink[1], hid_blink[2]>>)
         IN  /\ device' = r.device
             /\ hid_conns' = hid_conns + r.conns
             /\ Done("stratcom_open_device", <<>>,
                     [d |-> IF r.device = "open" THEN r.d ELSE Dev,
                      ret |-> r.device, calls |-> r.calls])
    /\ UNCHANGED hid_input
    /\ NoEvents
    /\ UNCHANGED iterVars

CloseDevice ==
    /\ device = "open"
    /\ device' = "null"
    /\ hid_conns' = hid_conns - 1
    /\ Done("stratcom_close_device", <<>>,
            [d |-> Constructed, ret |-> "void",
             calls |-> << HidCall("hid_close", <<>>, 0) >>])
    /\ UNCHANGED hid_input
    /\ NoEvents
    /\ UNCHANGED iterVars

SetButtonLedState ==
    /\ device = "open"
    /\ \E led \in LedArgs, state \in LedStates, res \in FeatureResults :
         Done("stratcom_set_button_led_state", <<led, state>>,
              stratcom_set_button_led_state(Dev, led, state, res))
    /\ UNCHANGED <<device, hid_conns>>
    /\ UNCHANGED hid_input
    /\ NoEvents
    /\ UNCHANGED iterVars

SetButtonLedStateWithoutFlushing ==
    /\ device = "open"
    /\ \E led \in LedArgs, state \in LedStates :
         Done("stratcom_set_button_led_state_without_flushing", <<led, state>>,
              [d |-> stratcom_set_button_led_state_without_flushing(Dev, led, state),
               ret |-> "void", calls |-> <<>>])
    /\ UNCHANGED <<device, hid_conns>>
    /\ UNCHANGED hid_input
    /\ NoEvents
    /\ UNCHANGED iterVars

\* the same call with any of the selectors of stratcom_button_led
AllLedArgs ==
    {LedButtons[i] : i \in 1..Len(LedButtons)}
        \cup {STRATCOM_LEDBUTTON_ALL, STRATCOM_LEDBUTTON_NONE}

SetAnyButtonLedStateWithoutFlushing ==
    /\ device = "open"
    /\ \E led \in AllLedArgs, state \in LedStates :
         Done("stratcom_set_button_led_state_without_flushing", <<led, state>>,
              [d |-> stratcom_set_button_led_state_without_flushing(Dev, led, state),
               ret |-> "void", calls |-> <<>>])
    /\ UNCHANGED <<device, hid_conns>>
    /\ UNCHANGED hid_input
    /\ NoEvents
    /\ UNCHANGED iterVars

FlushButtonLedState ==
    /\ device = "open"
    /\ \E res \in FeatureResults :
         Done("stratcom_flush_button_led_state", <<>>,
              stratcom_flush_button_led_state(Dev, res))
    /\ UNCHANGED <<device, hid_conns>>
    /\ UNCHANGED hid_input
    /\ NoEvents
    /\ UNCHANGED iterVars

ReadButtonLedState ==
    /\ device = "open"
    /\ \E res \in FeatureResults :
         Done("stratcom_read_button_led_state", <<>>,
              stratcom_read_button_led_state(Dev, res, <<1, hid_led[1], hid_led[2]>>))
    /\ UNCHANGED <<device, hid_conns>>
    /\ UNCHANGED hid_input
    /\ NoEvents
    /\ UNCHANGED iterVars

SetLedBlinkInterval ==
    /\ device = "open"
    /\ \E on_time \in 0..MaxBlink, off_time \in 0..MaxBlink, res \in FeatureResults :
         Done("stratcom_set_led_blink_interval", <<on_time, off_time>>,
              stratcom_set_led_blink_interval(Dev, on_time, off_time, res))
    /\ UNCHANGED <<device, hid_conns>>
    /\ UNCHANGED hid_input
    /\ NoEvents
    /\ UNCHANGED iterVars

ReadLedBlinkIntervals ==
    /\ device = "open"
    /\ \E res \in FeatureResults :
         Done("stratcom_read_led_blink_intervals", <<>>,
              stratcom_read_led_blink_intervals(Dev, res,
                                                <<2, hid_blink[1], hid_blink[2]>>))
    /\ UNCHANGED <<device, hid_conns>>
    /\ UNCHANGED hid_input
    /\ NoEvents
    /\ UNCHANGED iterVars

\* a read takes the pending report when it returns a full report (res = 7)
ReadInputBlocking ==
    /\ device = "open"
    /\ \E res \in ReadResults :
         /\ res = 7 => hid_input # <<>>
         /\ hid_input' = IF res = 7 THEN <<>> ELSE hid_input
         /\ Done("stratcom_read_input", <<>>, stratcom_read_input(Dev, res, hid_input))
    /\ UNCHANGED <<device, hid_conns>>
    /\ NoEvents
    /\ UNCHANGED iterVars

ReadInputWithTimeout ==
    /\ device = "open"
    /\ \E res \in ReadResults :
         /\ res = 7 => hid_input # <<>>
         /\ hid_input' = IF res = 7 THEN <<>> ELSE hid_input
         /\ Done("stratcom_read_input_with_timeout", <<>>,
                 stratcom_read_input_with_timeout(Dev, res, hid_input))
    /\ UNCHANGED <<device, hid_conns>>
    /\ NoEvents
    /\ UNCHANGED iterVars

ReadInputNonBlocking ==
    /\ device = "open"
    /\ \E res \in ReadResults :
         /\ res = 7 => hid_input # <<>>
         /\ hid_input' = IF res = 7 THEN <<>> ELSE hid_input
         /\ Done("stratcom_read_input_non_blocking", <<>>,
                 stratcom_read_input_non_blocking(Dev, res, hid_input))
    /\ UNCHANGED <<device, hid_conns>>
    /\ NoEvents
    /\ UNCHANGED iterVars

\* the hardware produces an input report
HidInputArrives ==
    /\ hid_input = <<>>
    /\ hid_input' \in InputReports
    /\ UNCHANGED <<devVars, hid_led, hid_blink, callVars>>
    /\ NoEvents
    /\ UNCHANGED iterVars

----------------------------------------------------------------------------
(* Iterating the buttons *)

stratcom_iterate_buttons_range_begin == STRATCOM_BUTTON_1

stratcom_iterate_buttons_range_end == STRATCOM_BUTTON_NONE

\* an increment that shifts the word it is given
increment_by_shift(button) ==
    IF button = 0 \/ button >= STRATCOM_BUTTON_REC THEN STRATCOM_BUTTON_NONE
    ELSE button * 2

stratcom_iterate_buttons_range_increment(button) ==
    CASE button = STRATCOM_BUTTON_1 -> STRATCOM_BUTTON_2
      [] button = STRATCOM_BUTTON_2 -> STRATCOM_BUTTON_3
      [] button = STRATCOM_BUTTON_3 -> STRATCOM_BUTTON_4
      [] button = STRATCOM_BUTTON_4 -> STRATCOM_BUTTON_5
      [] button = STRATCOM_BUTTON_5 -> STRATCOM_BUTTON_6
      [] button = STRATCOM_BUTTON_6 -> STRATCOM_BUTTON_PLUS
      [] button = STRATCOM_BUTTON_PLUS -> STRATCOM_BUTTON_MINUS
      [] button = STRATCOM_BUTTON_MINUS -> STRATCOM_BUTTON_SHIFT1
      [] button = STRATCOM_BUTTON_SHIFT1 -> STRATCOM_BUTTON_SHIFT2
      [] button = STRATCOM_BUTTON_SHIFT2 -> STRATCOM_BUTTON_SHIFT3
      [] button = STRATCOM_BUTTON_SHIFT3 -> STRATCOM_BUTTON_REC
      [] button = STRATCOM_BUTTON_REC -> STRATCOM_BUTTON_NONE
      [] OTHER -> STRATCOM_BUTTON_NONE

\* the values stratcom_iterate_buttons_range_increment is called with outside a
\* loop: the buttons, the end of the range, and words that are no button
ButtonArgs ==
    { STRATCOM_BUTTON_1, STRATCOM_BUTTON_2, STRATCOM_BUTTON_3, STRATCOM_BUTTON_4,
      STRATCOM_BUTTON_5, STRATCOM_BUTTON_6, STRATCOM_BUTTON_PLUS, STRATCOM_BUTTON_MINUS,
      STRATCOM_BUTTON_SHIFT1, STRATCOM_BUTTON_SHIFT2, STRATCOM_BUTTON_SHIFT3,
      STRATCOM_BUTTON_REC, STRATCOM_BUTTON_NONE, 3, 6, 2049, 4095, 4096, 65535 }

\* "auto b = stratcom_iterate_buttons_range_begin()"
IterateButtonsRangeBegin ==
    /\ button_it' = stratcom_iterate_buttons_range_begin
    /\ visited' = <<>>
    /\ op' = "stratcom_iterate_buttons_range_begin"
    /\ args' = <<>>
    /\ ret' = stratcom_iterate_buttons_range_begin
    /\ hid_calls' = <<>>
    /\ UNCHANGED <<devVars, hidVars, evVars>>

\* one turn of the loop: "b != stratcom_iterate_buttons_range_end()", the body,
\* "b = stratcom_iterate_buttons_range_increment(b)"
IterateButtonsLoop ==
    /\ button_it # stratcom_iterate_buttons_range_end
    /\ visited' = Append(visited, button_it)
    /\ button_it' = stratcom_iterate_buttons_range_increment(button_it)
    /\ op' = "stratcom_iterate_buttons_range_increment"
    /\ args' = <<button_it>>
    /\ ret' = button_it'
    /\ hid_calls' = <<>>
    /\ UNCHANGED <<devVars, hidVars, evVars>>

\* a call of the increment outside the loop
IterateButtonsRangeIncrement ==
    /\ \E button \in ButtonArgs :
         /\ args' = <<button>>
         /\ ret' = stratcom_iterate_buttons_range_increment(button)
    /\ op' = "stratcom_iterate_buttons_range_increment"
    /\ hid_calls' = <<>>
    /\ UNCHANGED <<devVars, hidVars, evVars, iterVars>>

----------------------------------------------------------------------------
(* Input events: heap maps the address of each allocated stratcom_input_event *)
(* to [ev, next]; address 0 is nullptr.  The members of the desc union that   *)
(* an event's type does not use are written as "-" and 0.                    *)

SliderEvent(status) ==
    [type |-> "STRATCOM_INPUT_EVENT_SLIDER", slider |-> status,
     axis |-> "-", button |-> 0, status |-> 0]

AxisEvent(axis, status) ==
    [type |-> "STRATCOM_INPUT_EVENT_AXIS", slider |-> "-",
     axis |-> axis, button |-> 0, status |-> status]

ButtonEvent(button, status) ==
    [type |-> "STRATCOM_INPUT_EVENT_BUTTON", slider |-> "-",
     axis |-> "-", button |-> button, status |-> status]

\* the address operator new returns
NewAddress(h) ==
    CHOOSE a \in 1..(Cardinality(DOMAIN h) + 1) :
        /\ a \notin DOMAIN h
        /\ \A b \in 1..(a - 1) : b \in DOMAIN h

Allocate(h, a, node) == [x \in DOMAIN h \cup {a} |-> IF x = a THEN node ELSE h[x]]

Delete(h, a) == [x \in DOMAIN h \ {a} |-> h[x]]

RECURSIVE stratcom_free_input_events(_, _)
stratcom_free_input_events(h, list) ==
    IF list = 0 THEN h
    ELSE stratcom_free_input_events(Delete(h, list), h[list].next)

\* the list of events reached from a head by following next
RECURSIVE ListFrom(_, _)
ListFrom(h, list) ==
    IF list = 0 THEN <<>> ELSE <<h[list].ev>> \o ListFrom(h, h[list].next)

\* the address of the last node of a non-empty list
RECURSIVE LastNode(_, _)
LastNode(h, list) ==
    IF h[list].next = 0 THEN list ELSE LastNode(h, h[list].next)

\* a Link that puts the new event behind the last one and keeps the head
LinkAtTail(h, list, a, ev) ==
    IF list = 0
    THEN [heap |-> Allocate(h, a, [ev |-> ev, next |-> 0]), ret |-> a]
    ELSE [heap |-> Allocate([h EXCEPT ![LastNode(h, list)].next = a],
                            a, [ev |-> ev, next |-> 0]),
          ret |-> list]

\* "ev->next = ret; ret = ev;"
Link(h, list, a, ev) ==
    [heap |-> Allocate(h, a, [ev |-> ev, next |-> list]), ret |-> a]

\* one "new stratcom_input_event" with the assignments that follow it; st is
\* [heap, ret, allocs, thrown], fail_at the number of the allocation that
\* throws std::bad_alloc (0: none does)
NewEvent(st, ev, fail_at) ==
    IF st.thrown THEN st
    ELSE IF st.allocs + 1 = fail_at
    THEN [st EXCEPT !.thrown = TRUE]
    ELSE LET l == Link(st.heap, st.ret, NewAddress(st.heap), ev)
         IN  [st EXCEPT !.heap = l.heap, !.ret = l.ret, !.allocs = st.allocs + 1]

\* an evaluate_axis_states that reports the value the axis had
evaluate_axis_states_old(st, old_val, new_val, axis, fail_at) ==
    IF old_val # new_val THEN NewEvent(st, AxisEvent(axis, old_val), fail_at) ELSE st

evaluate_axis_states(st, old_val, new_val, axis, fail_at) ==
    IF old_val # new_val THEN NewEvent(st, AxisEvent(axis, new_val), fail_at) ELSE st

RECURSIVE ButtonLoop(_, _, _, _, _)
ButtonLoop(st, b, old, new, fail_at) ==
    IF b = stratcom_iterate_buttons_range_end THEN st
    ELSE LET st2 == IF BitAnd(old.buttons, b) # BitAnd(new.buttons, b)
                    THEN NewEvent(st,
                             ButtonEvent(b, IF BitAnd(new.buttons, b) = 0 THEN 0 ELSE 1),
                             fail_at)
                    ELSE st
         IN  ButtonLoop(st2, stratcom_iterate_buttons_range_increment(b),
                        old, new, fail_at)

\* a catch clause that drops the list without releasing its events
CatchWithoutFree(st) ==
    IF st.thrown /\ st.ret # 0 THEN [st EXCEPT !.ret = 0] ELSE st

\* the catch clause
CatchBadAlloc(st) ==
    IF st.thrown /\ st.ret # 0
    THEN [st EXCEPT !.heap = stratcom_free_input_events(st.heap, st.ret), !.ret = 0]
    ELSE st

stratcom_create_input_events_from_states(h, old, new, fail_at) ==
    LET st0 == [heap |-> h, ret |-> 0, allocs |-> 0, thrown |-> FALSE]
        st1 == IF old.slider # new.slider
               THEN NewEvent(st0, SliderEvent(new.slider), fail_at)
               ELSE st0
        st2 == evaluate_axis_states(st1, old.axisX, new.axisX, "STRATCOM_AXIS_X", fail_at)
        st3 == evaluate_axis_states(st2, old.axisY, new.axisY, "STRATCOM_AXIS_Y", fail_at)
        st4 == evaluate_axis_states(st3, old.axisZ, new.axisZ, "STRATCOM_AXIS_Z", fail_at)
        st5 == IF old.buttons # new.buttons
               THEN ButtonLoop(st4, stratcom_iterate_buttons_range_begin,
                               old, new, fail_at)
               ELSE st4
    IN  CatchBadAlloc(st5)

\* an append that links the new events behind the first event of the list
append_after_head(h, list, old, new, fail_at) ==
    LET r == stratcom_create_input_events_from_states(h, old, new, fail_at)
    IN  [r EXCEPT !.heap = [r.heap EXCEPT ![list].next = r.ret]]

\* events is not nullptr; event_it ends at the last node of the list
stratcom_append_input_events_from_states(h, list, old, new, fail_at) ==
    LET r == stratcom_create_input_events_from_states(h, old, new, fail_at)
        event_it == LastNode(h, list)
    IN  [r EXCEPT !.heap = [r.heap EXCEPT ![event_it].next = r.ret]]

\* the caller keeps the list the call returns
CreateInputEvents ==
    /\ events = 0
    /\ \E fail_at \in 0..MaxFailAt :
         LET r == stratcom_create_input_events_from_states(heap, old_state, new_state,
                                                           fail_at)
         IN  /\ heap' = r.heap
             /\ events' = r.ret
             /\ bad_alloc' = r.thrown
             /\ allocated' = r.allocs
    /\ op' = "stratcom_create_input_events_from_states"
    /\ args' = <<>>
    /\ ret' = "void"
    /\ hid_calls' = <<>>
    /\ UNCHANGED <<devVars, hidVars, old_state, new_state>>
    /\ UNCHANGED iterVars

\* the caller passes the list it holds, which is not empty, and keeps it; ret is
\* the pointer the call returns
AppendInputEvents ==
    /\ events # 0
    /\ Len(ListFrom(heap, events)) <= MaxListLen
    /\ \E fail_at \in 0..MaxFailAt :
         LET r == stratcom_append_input_events_from_states(heap, events,
                      old_state, new_state, fail_at)
         IN  /\ heap' = r.heap
             /\ ret' = r.ret
             /\ bad_alloc' = r.thrown
             /\ allocated' = r.allocs
    /\ op' = "stratcom_append_input_events_from_states"
    /\ args' = <<>>
    /\ hid_calls' = <<>>
    /\ UNCHANGED <<devVars, hidVars, old_state, new_state, events>>
    /\ UNCHANGED iterVars

FreeInputEvents ==
    /\ heap' = stratcom_free_input_events(heap, events)
    /\ events' = 0
    /\ bad_alloc' = FALSE
    /\ allocated' = 0
    /\ op' = "stratcom_free_input_events"
    /\ args' = <<>>
    /\ ret' = "void"
    /\ hid_calls' = <<>>
    /\ UNCHANGED <<devVars, hidVars, old_state, new_state>>
    /\ UNCHANGED iterVars

----------------------------------------------------------------------------
(* Specifications *)

NoEventState ==
    /\ old_state = ZeroInput
    /\ new_state = ZeroInput
    /\ heap = <<>>
    /\ events = 0
    /\ bad_alloc = FALSE
    /\ allocated = 0

\* no loop over the buttons has made a turn
LoopNotEntered ==
    /\ button_it = stratcom_iterate_buttons_range_begin
    /\ visited = <<>>

NoCall ==
    /\ op = "none"
    /\ args = <<>>
    /\ ret = "void"
    /\ hid_calls = <<>>

\* a handle as stratcom_open_device_on_path returns it when the hardware answers
\* both its reads
Opened ==
    LET r == stratcom_open_device_on_path(TRUE, TRUE,
                 3, <<1, hid_led[1], hid_led[2]>>, 3, <<2, hid_blink[1], hid_blink[2]>>)
    IN  /\ device = r.device
        /\ hid_conns = r.conns
        /\ led_button_state = r.d.led_button_state
        /\ led_button_state_has_unflushed_changes = r.d.led_button_state_has_unflushed_changes
        /\ blink_state = r.d.blink_state
        /\ input_state = r.d.input_state

\* Spec: the LED state of one handle and of the hardware, from before the open
Init ==
    /\ device = "null"
    /\ hid_conns = 0
    /\ led_button_state = 0
    /\ led_button_state_has_unflushed_changes = TRUE
    /\ blink_state = ZeroBlink
    /\ input_state = ZeroInput
    /\ hid_led = <<6, 33>>
    /\ hid_blink = <<3, 5>>
    /\ hid_input = <<>>
    /\ NoCall
    /\ LoopNotEntered
    /\ NoEventState

Next ==
    \/ OpenDeviceOnPath
    \/ CloseDevice
    \/ SetButtonLedState
    \/ SetButtonLedStateWithoutFlushing
    \/ FlushButtonLedState
    \/ ReadButtonLedState

Spec == Init /\ [][Next]_vars

\* SpecLifecycle: handles and hid_device connections over opens and closes, for
\* several LED masks and blink intervals the hardware may hold
InitLifecycle ==
    /\ device = "null"
    /\ hid_conns = 0
    /\ led_button_state = 0
    /\ led_button_state_has_unflushed_changes = TRUE
    /\ blink_state = ZeroBlink
    /\ input_state = ZeroInput
    /\ hid_led \in {<<0, 0>>, <<6, 33>>}
    /\ hid_blink \in (0..MaxBlink) \X (0..MaxBlink)
    /\ hid_input = <<>>
    /\ NoCall
    /\ LoopNotEntered
    /\ NoEventState

NextLifecycle ==
    \/ OpenDevice
    \/ OpenDeviceOnPath
    \/ CloseDevice

SpecLifecycle == InitLifecycle /\ [][NextLifecycle]_vars

\* SpecDirty: one handle from its open on, with every call that reads or writes
\* the cache or the hardware
InitDirty ==
    /\ device = "null"
    /\ hid_conns = 0
    /\ led_button_state = 0
    /\ led_button_state_has_unflushed_changes = TRUE
    /\ blink_state = ZeroBlink
    /\ input_state = ZeroInput
    /\ hid_led = <<6, 33>>
    /\ hid_blink = <<0, 0>>
    /\ hid_input = <<>>
    /\ NoCall
    /\ LoopNotEntered
    /\ NoEventState

NextDirty ==
    \/ OpenDeviceOnPath
    \/ SetButtonLedState
    \/ SetButtonLedStateWithoutFlushing
    \/ FlushButtonLedState
    \/ ReadButtonLedState
    \/ SetLedBlinkInterval
    \/ ReadLedBlinkIntervals
    \/ ReadInputNonBlocking

SpecDirty == InitDirty /\ [][NextDirty]_vars

\* SpecCache: the cache of an open handle between device round trips
InitCache ==
    /\ hid_led = <<6, 33>>
    /\ hid_blink = <<3, 5>>
    /\ hid_input = <<1, 255, 1, 0, 0, 4, 48>>
    /\ Opened
    /\ NoCall
    /\ LoopNotEntered
    /\ NoEventState

NextCache ==
    \/ SetButtonLedStateWithoutFlushing
    \/ ReadInputNonBlocking

SpecCache == InitCache /\ [][NextCache]_vars

\* SpecLedSet: the cached mask under set-LED-state calls with every selector,
\* from a mask that has both bits of button LEDs 4 and 6 set
InitLedSet ==
    /\ hid_led = <<192, 12>>
    /\ hid_blink = <<3, 5>>
    /\ hid_input = <<>>
    /\ Opened
    /\ NoCall
    /\ LoopNotEntered
    /\ NoEventState

NextLedSet ==
    \/ SetAnyButtonLedStateWithoutFlushing

SpecLedSet == InitLedSet /\ [][NextLedSet]_vars

\* SpecRead: reading the LED mask and the blink interval back over unflushed
\* changes of the mask and over blink intervals written since the last read
InitRead ==
    /\ hid_led = <<6, 33>>
    /\ hid_blink = <<0, 0>>
    /\ hid_input = <<>>
    /\ Opened
    /\ NoCall
    /\ LoopNotEntered
    /\ NoEventState

NextRead ==
    \/ SetButtonLedStateWithoutFlushing
    \/ SetLedBlinkInterval
    \/ ReadButtonLedState
    \/ ReadLedBlinkIntervals

SpecRead == InitRead /\ [][NextRead]_vars

\* SpecBlink: the blink interval of an open handle and of the hardware
InitBlink ==
    /\ hid_led = <<6, 33>>
    /\ hid_blink \in (0..MaxBlink) \X (0..MaxBlink)
    /\ hid_input = <<>>
    /\ Opened
    /\ NoCall
    /\ LoopNotEntered
    /\ NoEventState

NextBlink ==
    \/ SetLedBlinkInterval
    \/ ReadLedBlinkIntervals

SpecBlink == InitBlink /\ [][NextBlink]_vars

\* SpecInput: reading input reports on an open handle
InitInput ==
    /\ hid_led = <<6, 33>>
    /\ hid_blink = <<3, 5>>
    /\ hid_input = <<>>
    /\ Opened
    /\ NoCall
    /\ LoopNotEntered
    /\ NoEventState

NextInput ==
    \/ HidInputArrives
    \/ ReadInputBlocking
    \/ ReadInputWithTimeout
    \/ ReadInputNonBlocking

SpecInput == InitInput /\ [][NextInput]_vars

\* SpecDecode: the first input report read on an open handle, over a wide
\* range of reports
Byte1Samples == {0, 1, 255}

Byte2Samples == {0, 1, 2, 3, 4, 252, 255}

Byte3Samples == {0, 7, 8, 15, 16, 240, 255}

Byte4Samples == {0, 31, 32, 63, 64, 192, 224, 255}

ButtonByteSamples == { <<0, 0>>, <<4, 48>>, <<255, 47>>, <<128, 24>>, <<1, 255>> }

InitDecode ==
    /\ hid_led = <<6, 33>>
    /\ hid_blink = <<3, 5>>
    /\ \E b1 \in Byte1Samples, b2 \in Byte2Samples, b3 \in Byte3Samples,
          b4 \in Byte4Samples, b56 \in ButtonByteSamples :
         hid_input = <<1, b1, b2, b3, b4, b56[1], b56[2]>>
    /\ Opened
    /\ NoCall
    /\ LoopNotEntered
    /\ NoEventState

NextDecode ==
    \/ ReadInputBlocking
    \/ ReadInputWithTimeout
    \/ ReadInputNonBlocking

SpecDecode == InitDecode /\ [][NextDecode]_vars

\* SpecButtons: the first input report read on an open handle, over every b6
\* and a range of b5, with the axes at rest
Byte5Samples == {0, 1, 128, 255}

InitButtons ==
    /\ hid_led = <<6, 33>>
    /\ hid_blink = <<3, 5>>
    /\ \E b5 \in Byte5Samples, b6 \in 0..255 : hid_input = <<1, 0, 0, 0, 0, b5, b6>>
    /\ Opened
    /\ NoCall
    /\ LoopNotEntered
    /\ NoEventState

SpecButtons == InitButtons /\ [][NextDecode]_vars

\* SpecLedCodec: flushing and reading back every 16-bit LED state
InitLedCodec ==
    /\ hid_led \in (0..255) \X (0..255)
    /\ hid_blink = <<3, 5>>
    /\ hid_input = <<>>
    /\ Opened
    /\ NoCall
    /\ LoopNotEntered
    /\ NoEventState

NextLedCodec ==
    \/ FlushButtonLedState
    \/ ReadButtonLedState

SpecLedCodec == InitLedCodec /\ [][NextLedCodec]_vars

\* SpecEvents: the event list of two input states
SliderSamples == {"STRATCOM_SLIDER_1", "STRATCOM_SLIDER_2"}

ButtonWordSamples == {0, 4, 2049, 4095, 61440, 4100}

OldInput ==
    [buttons |-> 0, slider |-> "STRATCOM_SLIDER_1",
     axisX |-> 0, axisY |-> -512, axisZ |-> 7]

InitEvents ==
    /\ hid_led = <<6, 33>>
    /\ hid_blink = <<3, 5>>
    /\ hid_input = <<>>
    /\ Opened
    /\ NoCall
    /\ LoopNotEntered
    /\ \E ob \in ButtonWordSamples, nb \in ButtonWordSamples,
          ns \in SliderSamples, nx \in {0, 511}, ny \in {-512, 3}, nz \in {7, -1} :
         /\ old_state = [OldInput EXCEPT !.buttons = ob]
         /\ new_state = [buttons |-> nb, slider |-> ns,
                         axisX |-> nx, axisY |-> ny, axisZ |-> nz]
    /\ heap = <<>>
    /\ events = 0
    /\ bad_alloc = FALSE
    /\ allocated = 0

NextEvents ==
    \/ CreateInputEvents
    \/ FreeInputEvents

SpecEvents == InitEvents /\ [][NextEvents]_vars

\* SpecAppend: event lists that are created, appended to and freed
NextAppend ==
    \/ CreateInputEvents
    \/ AppendInputEvents
    \/ FreeInputEvents

SpecAppend == InitEvents /\ [][NextAppend]_vars

\* SpecIterate: loops over the buttons and single calls of the increment
InitIterate ==
    /\ hid_led = <<6, 33>>
    /\ hid_blink = <<3, 5>>
    /\ hid_input = <<>>
    /\ Opened
    /\ NoCall
    /\ LoopNotEntered
    /\ NoEventState

NextIterate ==
    \/ IterateButtonsRangeBegin
    \/ IterateButtonsLoop
    \/ IterateButtonsRangeIncrement

SpecIterate == InitIterate /\ [][NextIterate]_vars

----------------------------------------------------------------------------
(* Properties of the event list *)

CreateReturned == op = "stratcom_create_input_events_from_states" /\ ~bad_alloc

CanonicalButtons ==
    << STRATCOM_BUTTON_1, STRATCOM_BUTTON_2, STRATCOM_BUTTON_3, STRATCOM_BUTTON_4,
       STRATCOM_BUTTON_5, STRATCOM_BUTTON_6, STRATCOM_BUTTON_PLUS, STRATCOM_BUTTON_MINUS,
       STRATCOM_BUTTON_SHIFT1, STRATCOM_BUTTON_SHIFT2, STRATCOM_BUTTON_SHIFT3,
       STRATCOM_BUTTON_REC >>

\* bit b (a power of two) of word w
Bit(w, b) == (w \div b) % 2

RECURSIVE ButtonChanges(_, _, _)
ButtonChanges(old, new, i) ==
    IF i > Len(CanonicalButtons) THEN <<>>
    ELSE (IF Bit(old.buttons, CanonicalButtons[i]) # Bit(new.buttons, CanonicalButtons[i])
          THEN << ButtonEvent(CanonicalButtons[i], Bit(new.buttons, CanonicalButtons[i])) >>
          ELSE <<>>) \o ButtonChanges(old, new, i + 1)

\* the changes from old to new: slider, axis X, Y, Z, then the buttons in
\* canonical order
Changes(old, new) ==
    (IF old.slider # new.slider THEN << SliderEvent(new.slider) >> ELSE <<>>)
    \o (IF old.axisX # new.axisX THEN << AxisEvent("STRATCOM_AXIS_X", new.axisX) >> ELSE <<>>)
    \o (IF old.axisY # new.axisY THEN << AxisEvent("STRATCOM_AXIS_Y", new.axisY) >> ELSE <<>>)
    \o (IF old.axisZ # new.axisZ THEN << AxisEvent("STRATCOM_AXIS_Z", new.axisZ) >> ELSE <<>>)
    \o ButtonChanges(old, new, 1)

Reverse(seq) == [i \in 1..Len(seq) |-> seq[Len(seq) + 1 - i]]

\* C1 as claimed: the list returned by stratcom_create_input_events_from_states,
\* read from its head, holds the slider event first, then the axis X, Y, Z
\* events, then the button events in canonical order.
C1_HeadFirstOrder ==
    CreateReturned => ListFrom(heap, events) = Changes(old_state, new_state)

\* C1 amended: read from its head, the list holds the events in the reverse of
\* that order: the button events from rec down to button 1, then the axis Z, Y,
\* X events, and the slider event last.
C1_ReverseOrder ==
    CreateReturned => ListFrom(heap, events) = Reverse(Changes(old_state, new_state))

\* a list with the slider, two axes and two buttons changed: the rec button is
\* at the head and the slider event at the end
C1_Witness ==
    /\ CreateReturned
    /\ old_state.buttons = 0 /\ new_state.buttons = 2049
    /\ old_state.slider # new_state.slider
    /\ old_state.axisX # new_state.axisX
    /\ old_state.axisY = new_state.axisY
    /\ old_state.axisZ # new_state.axisZ
    /\ Len(ListFrom(heap, events)) = 5
    /\ heap[events].ev = ButtonEvent(STRATCOM_BUTTON_REC, 1)

\* the set of events of a sequence
Range(seq) == {seq[i] : i \in 1..Len(seq)}

\* C6: when no allocation fails, the list holds exactly one Slider event with
\* new.slider iff the sliders differ, one Axis event with the new value per axis
\* that differs, one Button event (pressed = 1 iff the bit is set in new) per
\* canonical button whose bit differs, and nothing else; bits outside the 12
\* buttons produce no event, and the list is null when nothing changed.
C6_ExactlyTheChanges ==
    CreateReturned =>
        LET list == ListFrom(heap, events)
            expected ==
                (IF old_state.slider # new_state.slider
                 THEN {SliderEvent(new_state.slider)} ELSE {})
                \cup (IF old_state.axisX # new_state.axisX
                      THEN {AxisEvent("STRATCOM_AXIS_X", new_state.axisX)} ELSE {})
                \cup (IF old_state.axisY # new_state.axisY
                      THEN {AxisEvent("STRATCOM_AXIS_Y", new_state.axisY)} ELSE {})
                \cup (IF old_state.axisZ # new_state.axisZ
                      THEN {AxisEvent("STRATCOM_AXIS_Z", new_state.axisZ)} ELSE {})
                \cup {ButtonEvent(b, Bit(new_state.buttons, b)) :
                        b \in {c \in Range(CanonicalButtons) :
                                 Bit(old_state.buttons, c) # Bit(new_state.buttons, c)}}
        IN  /\ Range(list) = expected
            /\ Len(list) = Cardinality(expected)
            /\ (expected = {}) <=> (events = 0)
            /\ (old_state = new_state) => (events = 0)
            /\ (/\ old_state.buttons % 4096 = new_state.buttons % 4096
                /\ [old_state EXCEPT !.buttons = 0] = [new_state EXCEPT !.buttons = 0])
               => (events = 0)

\* button 1 and rec pressed, button 3 released, bit 0x1000 changed, slider
\* and axis Z changed: five events
C6_Witness ==
    /\ CreateReturned
    /\ old_state.buttons = 4100 /\ new_state.buttons = 2049
    /\ old_state.slider # new_state.slider
    /\ old_state.axisZ # new_state.axisZ
    /\ old_state.axisX = new_state.axisX /\ old_state.axisY = new_state.axisY
    /\ Len(ListFrom(heap, events)) = 5
    /\ ButtonEvent(STRATCOM_BUTTON_3, 0) \in Range(ListFrom(heap, events))

\* C9: if an allocation fails during stratcom_create_input_events_from_states,
\* every event allocated in the call is released and the call returns null; a
\* list that is returned is complete, and no event outside it stays allocated.
C9_AllOrNothing ==
    op = "stratcom_create_input_events_from_states" =>
        /\ bad_alloc => (events = 0 /\ DOMAIN heap = {})
        /\ events # 0 =>
             /\ ~bad_alloc
             /\ Len(ListFrom(heap, events)) = Len(Changes(old_state, new_state))
             /\ Cardinality(DOMAIN heap) = Len(Changes(old_state, new_state))

\* the fourth allocation of a call failed after three had succeeded
C9_Witness ==
    /\ op = "stratcom_create_input_events_from_states"
    /\ bad_alloc
    /\ allocated = 3
    /\ events = 0
    /\ DOMAIN heap = {}

----------------------------------------------------------------------------
(* Properties of the LED state *)

SetOps == {"stratcom_set_button_led_state",
           "stratcom_set_button_led_state_without_flushing"}

\* the two bits of button LED i (0..6) in mask m: 0 off, 1 on, 2 blink, 3 both
LedBits(m, i) == (m \div (4 ^ i)) % 4

NoButtonHasBothBits(m) == \A i \in 0..6 : LedBits(m, i) # 3

\* C2: no LED feature report sent to the hardware has both the on-bit and the
\* blink-bit of a button set, given that the masks read from the hardware have
\* none; the same holds of the cached mask; and after a set-LED-state call with
\* OFF both bits of every button LED the selector names are clear.
C2_NeverBothBits ==
    /\ \A k \in 1..Len(hid_calls) :
         (hid_calls[k].fn = "hid_send_feature_report" /\ hid_calls[k].data[1] = 1)
            => NoButtonHasBothBits(hid_calls[k].data[2] + 256 * hid_calls[k].data[3])
    /\ NoButtonHasBothBits(led_button_state)
    /\ (op \in SetOps /\ args[2] = "STRATCOM_LED_OFF")
          => \A i \in 0..6 : Bit(args[1], 4 ^ i) = 1 => LedBits(led_button_state, i) = 0

\* button 1 set to BLINK, and flushed, after ALL had been set to ON
C2_Witness ==
    /\ op = "stratcom_set_button_led_state"
    /\ args = <<STRATCOM_LEDBUTTON_1, "STRATCOM_LED_BLINK">>
    /\ ret = "STRATCOM_RET_SUCCESS"
    /\ hid_calls[1].data = <<1, 86, 21>>
    /\ hid_led = <<86, 21>>

\* C4: a flush makes exactly one hid_send_feature_report call, with the bytes
\* <<1, mask & 0xFF, (mask >> 8) & 0xFF>> of the cached mask; it returns success
\* exactly when 3 bytes were written and then the dirty flag is false; when it
\* returns error the dirty flag and the mask are as before the flush.  The
\* flush inside stratcom_set_button_led_state does the same with the mask the
\* call has just set.
C4_FlushWritesOnce ==
    [][ /\ op' = "stratcom_flush_button_led_state" =>
            /\ Len(hid_calls') = 1
            /\ hid_calls'[1].fn = "hid_send_feature_report"
            /\ hid_calls'[1].data = << 1, led_button_state % 256,
                                       (led_button_state \div 256) % 256 >>
            /\ led_button_state' = led_button_state
            /\ ret' \in {"STRATCOM_RET_SUCCESS", "STRATCOM_RET_ERROR"}
            /\ (ret' = "STRATCOM_RET_SUCCESS") <=> (hid_calls'[1].res = 3)
            /\ (ret' = "STRATCOM_RET_SUCCESS") => ~led_button_state_has_unflushed_changes'
            /\ (ret' = "STRATCOM_RET_ERROR") => (led_button_state_has_unflushed_changes' = led_button_state_has_unflushed_changes)
        /\ op' = "stratcom_set_button_led_state" =>
            /\ Len(hid_calls') = 1
            /\ hid_calls'[1].fn = "hid_send_feature_report"
            /\ hid_calls'[1].data = << 1, led_button_state' % 256,
                                       (led_button_state' \div 256) % 256 >>
            /\ (ret' = "STRATCOM_RET_SUCCESS") <=> (hid_calls'[1].res = 3)
            /\ (ret' = "STRATCOM_RET_SUCCESS") => ~led_button_state_has_unflushed_changes'
            /\ (ret' = "STRATCOM_RET_ERROR") => led_button_state_has_unflushed_changes'
      ]_vars

\* a flush of mask 0x1556 failed: the flag is still set and the hardware holds
\* another mask
C4_Witness ==
    /\ op = "stratcom_flush_button_led_state"
    /\ ret = "STRATCOM_RET_ERROR"
    /\ hid_calls[1].data = <<1, 86, 21>>
    /\ hid_calls[1].res = 2
    /\ led_button_state_has_unflushed_changes
    /\ led_button_state = 5462
    /\ hid_led # <<86, 21>>

\* C5: stratcom_set_button_led_state_without_flushing calls nothing in hidapi;
\* it leaves the hardware, the cached blink interval and the cached input state
\* as they are, and afterwards stratcom_led_state_has_unflushed_changes is
\* true, also when the mask did not change.
C5_SetTouchesOnlyTheCache ==
    [][ op' = "stratcom_set_button_led_state_without_flushing" =>
            /\ hid_calls' = <<>>
            /\ stratcom_led_state_has_unflushed_changes(Dev)'
            /\ UNCHANGED <<hid_led, hid_blink, hid_input>>
            /\ UNCHANGED <<blink_state, input_state, device, hid_conns>>
      ]_vars

\* a set call with the NONE selector, which leaves the mask read at open, on a
\* handle with a blink interval and an input state that are not zero
C5_Witness ==
    /\ op = "stratcom_set_button_led_state_without_flushing"
    /\ args[1] = STRATCOM_LEDBUTTON_NONE
    /\ led_button_state = 8454
    /\ led_button_state_has_unflushed_changes
    /\ blink_state = [on_time |-> 3, off_time |-> 5]
    /\ input_state.axisX = 511
    /\ hid_calls = <<>>

\* C10: decoding the report a flush sends for mask m, the way
\* stratcom_read_button_led_state decodes it, yields m, for every 16-bit m; so
\* a successful read that follows a successful flush leaves the mask unchanged.
C10_LedReportRoundTrip ==
    [][ /\ op' = "stratcom_flush_button_led_state" =>
            /\ hid_calls'[1].data[1] = 1
            /\ LedStateOf(hid_calls'[1].data) = led_button_state'
        /\ (/\ op = "stratcom_flush_button_led_state"
            /\ ret = "STRATCOM_RET_SUCCESS"
            /\ op' = "stratcom_read_button_led_state"
            /\ ret' = "STRATCOM_RET_SUCCESS")
           => led_button_state' = led_button_state
      ]_vars

\* mask 0xABCD flushed: the hardware holds <<0xCD, 0xAB>>
C10_Witness ==
    /\ op = "stratcom_flush_button_led_state"
    /\ ret = "STRATCOM_RET_SUCCESS"
    /\ led_button_state = 43981
    /\ hid_calls[1].data = <<1, 205, 171>>
    /\ hid_led = <<205, 171>>

----------------------------------------------------------------------------
(* Properties of reading input *)

ReadOps == {"stratcom_read_input", "stratcom_read_input_with_timeout",
            "stratcom_read_input_non_blocking"}

HidReads == {"hid_read", "hid_read_timeout"}

\* the hid_read / hid_read_timeout calls among the hidapi calls of the last call
ReadCalls(calls) == SelectSeq(calls, LAMBDA c : c.fn \in HidReads)

\* C3: a read-input call whose hidapi read delivers 7 bytes with b0 # 0x01
\* returns the error result and leaves the cached input state as it was.
C3_WrongReportId ==
    [][ (/\ op' \in ReadOps
         /\ ReadCalls(hid_calls')[1].res = 7
         /\ ReadCalls(hid_calls')[1].data[1] # 1)
        => /\ ret' = "STRATCOM_RET_ERROR"
           /\ input_state' = input_state
      ]_vars

\* a report with b0 = 2 was refused while the cache held an earlier report
C3_Witness ==
    /\ op = "stratcom_read_input_with_timeout"
    /\ ReadCalls(hid_calls)[1].res = 7
    /\ ReadCalls(hid_calls)[1].data[1] = 2
    /\ ret = "STRATCOM_RET_ERROR"
    /\ input_state.axisX = 511
    /\ input_state.slider = "STRATCOM_SLIDER_1"

\* C7: a read-input call makes exactly one hidapi read; it returns success only
\* for 7 bytes with b0 = 0x01; the non-blocking and timed variants return
\* no-data exactly for 0 bytes and error for any other count but 7; the
\* blocking variant never returns no-data, 0 bytes gives error; unless the
\* result is success the cached input state is unchanged.
C7_ReadResults ==
    [][ op' \in ReadOps =>
          LET reads == ReadCalls(hid_calls')
              res == reads[1].res
          IN  /\ Len(reads) = 1
              /\ ret' \in {"STRATCOM_RET_SUCCESS", "STRATCOM_RET_ERROR",
                           "STRATCOM_RET_NO_DATA"}
              /\ (ret' = "STRATCOM_RET_SUCCESS") => (res = 7 /\ reads[1].data[1] = 1)
              /\ (op' # "stratcom_read_input") =>
                    /\ (ret' = "STRATCOM_RET_NO_DATA") <=> (res = 0)
                    /\ (res # 0 /\ res # 7) => (ret' = "STRATCOM_RET_ERROR")
              /\ (op' = "stratcom_read_input") =>
                    /\ ret' # "STRATCOM_RET_NO_DATA"
                    /\ (res = 0) => (ret' = "STRATCOM_RET_ERROR")
              /\ (ret' # "STRATCOM_RET_SUCCESS") => (input_state' = input_state)
      ]_vars

\* the blocking read got 0 bytes and returned error, with an earlier report
\* still in the cache
C7_Witness ==
    /\ op = "stratcom_read_input"
    /\ ReadCalls(hid_calls)[1].res = 0
    /\ ret = "STRATCOM_RET_ERROR"
    /\ input_state.axisX = 511

\* the two's-complement reading of a 10-bit field
Signed10(raw) == IF raw < 512 THEN raw ELSE raw - 1024

\* C8: for a report with b0 = 0x01 each decoded axis is the two's-complement
\* reading of its 10-bit field; it lies in -512..511, and the top two bits of
\* b4 have no influence.
C8_AxisDecode ==
    (op \in ReadOps /\ ret = "STRATCOM_RET_SUCCESS") =>
        LET r == ReadCalls(hid_calls)[1].data
            rawX == (r[3] % 4) * 256 + r[2]
            rawY == (r[4] % 16) * 64 + (r[3] \div 4)
            rawZ == (r[5] % 64) * 16 + (r[4] \div 16)
        IN  /\ r[1] = 1
            /\ input_state.axisX = Signed10(rawX)
            /\ input_state.axisY = Signed10(rawY)
            /\ input_state.axisZ = Signed10(rawZ)
            /\ \A a \in {input_state.axisX, input_state.axisY, input_state.axisZ} :
                 a \in -512..511

\* raw X = 0x1FF gives 511; raw Y = raw Z = 0x200 give -512, with the top
\* bits of b4 set
C8_Witness ==
    /\ op \in ReadOps
    /\ ret = "STRATCOM_RET_SUCCESS"
    /\ ReadCalls(hid_calls)[1].data[2] = 255
    /\ ReadCalls(hid_calls)[1].data[3] = 1
    /\ ReadCalls(hid_calls)[1].data[4] = 8
    /\ ReadCalls(hid_calls)[1].data[5] = 224
    /\ input_state.axisX = 511
    /\ input_state.axisY = -512
    /\ input_state.axisZ = -512

----------------------------------------------------------------------------
(* Properties of opening and closing *)

OpenOps == {"stratcom_open_device", "stratcom_open_device_on_path"}

\* C11: every hid_device connection an open obtained is closed exactly once:
\* while the caller holds a handle exactly one connection is open, owned by that
\* handle and released by stratcom_close_device; when an open returns no handle,
\* and after a close, no connection is open.
C11_ConnectionsOwned ==
    /\ hid_conns = IF device = "open" THEN 1 ELSE 0
    /\ (op \in OpenOps /\ ret = "null") => hid_conns = 0
    /\ (op = "stratcom_close_device") => hid_conns = 0

----------------------------------------------------------------------------
(* Properties of the decoded buttons and slider *)

\* C12: for a report with b0 = 0x01 the decoded buttons word is
\* (b6 & 0x0F) << 8 | b5, so below 4096; the slider is Slider1 when bits 0x30 of
\* b6 are both set, otherwise Slider2 when bit 0x20 is set, otherwise Slider3,
\* whatever the low nibble of b6; the report <<1, 0, 0, 0, 0, 0, 0>> decodes to
\* buttons 0, Slider3 and all axes 0.
C12_ButtonsAndSlider ==
    (op \in ReadOps /\ ret = "STRATCOM_RET_SUCCESS") =>
        LET r == ReadCalls(hid_calls)[1].data
            high == r[7] \div 16
        IN  /\ input_state.buttons = (r[7] % 16) * 256 + r[6]
            /\ input_state.buttons < 4096
            /\ input_state.slider =
                  IF high % 4 = 3 THEN "STRATCOM_SLIDER_1"
                  ELSE IF (high \div 2) % 2 = 1 THEN "STRATCOM_SLIDER_2"
                  ELSE "STRATCOM_SLIDER_3"
            /\ (r = <<1, 0, 0, 0, 0, 0, 0>>) =>
                  input_state = [buttons |-> 0, slider |-> "STRATCOM_SLIDER_3",
                                 axisX |-> 0, axisY |-> 0, axisZ |-> 0]

\* b6 = 0xFA, b5 = 0xFF: Slider1 with a low nibble that is not zero, buttons
\* 0xAFF
C12_Witness ==
    /\ op \in ReadOps
    /\ ret = "STRATCOM_RET_SUCCESS"
    /\ ReadCalls(hid_calls)[1].data[6] = 255
    /\ ReadCalls(hid_calls)[1].data[7] = 250
    /\ input_state.slider = "STRATCOM_SLIDER_1"
    /\ input_state.buttons = 2815

----------------------------------------------------------------------------
(* Properties of the cache against the hardware *)

\* the LED mask the hardware holds
HidLedMask == hid_led[1] + 256 * hid_led[2]

\* C13: on a handle, while the hardware's LED mask changes only by this
\* handle's successful LED writes, in every state reached by open, set-LED-state
\* (flushing or not), flush, read-LED-state, set and read of the blink interval
\* and read-input: if the dirty flag is false, the cached mask is the mask the
\* hardware holds.
C13_CleanCacheMatchesHardware ==
    (device = "open" /\ ~led_button_state_has_unflushed_changes)
        => led_button_state = HidLedMask

\* mask 0x1556 written by a flushing set-LED-state, on a handle that has also
\* written and read back a blink interval
C13_Witness ==
    /\ device = "open"
    /\ op = "stratcom_set_button_led_state"
    /\ ret = "STRATCOM_RET_SUCCESS"
    /\ ~led_button_state_has_unflushed_changes
    /\ led_button_state = 5462
    /\ hid_led = <<86, 21>>
    /\ blink_state = [on_time |-> 1, off_time |-> 0]

\* C14: the cached blink interval mirrors the hardware: after a successful
\* stratcom_set_led_blink_interval(on, off), stratcom_get_led_blink_interval
\* returns (on, off); and after any successful set or read of the blink
\* interval it returns the pair the hardware holds.
C14_BlinkCacheMirrors ==
    /\ (op = "stratcom_set_led_blink_interval" /\ ret = "STRATCOM_RET_SUCCESS")
          => stratcom_get_led_blink_interval(Dev) = <<args[1], args[2]>>
    /\ (/\ op \in {"stratcom_set_led_blink_interval", "stratcom_read_led_blink_intervals"}
        /\ ret = "STRATCOM_RET_SUCCESS")
          => stratcom_get_led_blink_interval(Dev) = hid_blink

----------------------------------------------------------------------------
(* Properties of the LED getter and setter *)

\* the 7 button LEDs as a set
ButtonLeds == {LedButtons[i] : i \in 1..Len(LedButtons)}

\* stratcom_get_button_led_state on a handle whose cached mask is m
GetLed(m, led) == stratcom_get_button_led_state([led_button_state |-> m], led)

\* C15: for each of the 7 button LEDs b, each state s and any cached mask:
\* after stratcom_set_button_led_state_without_flushing(b, s),
\* stratcom_get_button_led_state(b) returns s and returns for every other
\* button LED what it returned before; of the mask only the two bits of b
\* change.
C15_SetOneLed ==
    [][ (/\ op' = "stratcom_set_button_led_state_without_flushing"
         /\ args'[1] \in ButtonLeds)
        => /\ GetLed(led_button_state', args'[1]) = args'[2]
           /\ \A other \in ButtonLeds \ {args'[1]} :
                 GetLed(led_button_state', other) = GetLed(led_button_state, other)
           /\ \A i \in 0..7 :
                 (4 ^ i # args'[1])
                    => LedBits(led_button_state', i) = LedBits(led_button_state, i)
      ]_vars

\* the rec LED set to BLINK in a mask where button 1 is on, button 2 blinks,
\* button 3 is off and button 4 still has both bits set
C15_Witness ==
    /\ op = "stratcom_set_button_led_state_without_flushing"
    /\ args = <<STRATCOM_LEDBUTTON_REC, "STRATCOM_LED_BLINK">>
    /\ GetLed(led_button_state, STRATCOM_LEDBUTTON_REC) = "STRATCOM_LED_BLINK"
    /\ LedBits(led_button_state, 0) = 1
    /\ LedBits(led_button_state, 1) = 2
    /\ LedBits(led_button_state, 2) = 0
    /\ LedBits(led_button_state, 3) = 3
    /\ LedBits(led_button_state, 6) = 2

----------------------------------------------------------------------------
(* Properties of the reads of the hardware state *)

\* C16: stratcom_read_button_led_state and stratcom_read_led_blink_intervals
\* each make exactly one hid_get_feature_report call, for report 0x01 and 0x02.
\* When it returns 3 bytes, the first replaces the cached mask by b1 | b2 << 8
\* and clears the dirty flag, dropping unflushed changes, and the second
\* replaces the cached blink interval by (b1, b2).  When it returns anything
\* else, the call returns error and the cached mask, blink interval and dirty
\* flag are unchanged.
C16_ReadsRefreshTheCache ==
    [][ /\ op' = "stratcom_read_button_led_state" =>
            /\ Len(hid_calls') = 1
            /\ hid_calls'[1].fn = "hid_get_feature_report"
            /\ hid_calls'[1].data = <<1>>
            /\ (hid_calls'[1].res = 3) =>
                  /\ ret' = "STRATCOM_RET_SUCCESS"
                  /\ led_button_state' = hid_led[1] + 256 * hid_led[2]
                  /\ ~led_button_state_has_unflushed_changes'
                  /\ blink_state' = blink_state
            /\ (hid_calls'[1].res # 3) =>
                  /\ ret' = "STRATCOM_RET_ERROR"
                  /\ UNCHANGED <<led_button_state, blink_state,
                                 led_button_state_has_unflushed_changes>>
        /\ op' = "stratcom_read_led_blink_intervals" =>
            /\ Len(hid_calls') = 1
            /\ hid_calls'[1].fn = "hid_get_feature_report"
            /\ hid_calls'[1].data = <<2>>
            /\ (hid_calls'[1].res = 3) =>
                  /\ ret' = "STRATCOM_RET_SUCCESS"
                  /\ blink_state' = [on_time |-> hid_blink[1], off_time |-> hid_blink[2]]
                  /\ UNCHANGED <<led_button_state, led_button_state_has_unflushed_changes>>
            /\ (hid_calls'[1].res # 3) =>
                  /\ ret' = "STRATCOM_RET_ERROR"
                  /\ UNCHANGED <<led_button_state, blink_state,
                                 led_button_state_has_unflushed_changes>>
      ]_vars

\* the mask was read back after the blink interval (0, 1) had been written and
\* read: the cache holds the hardware's mask and is clean
C16_Witness ==
    /\ op = "stratcom_read_button_led_state"
    /\ ret = "STRATCOM_RET_SUCCESS"
    /\ hid_calls[1].res = 3
    /\ led_button_state = 8454
    /\ ~led_button_state_has_unflushed_changes
    /\ blink_state = [on_time |-> 0, off_time |-> 1]

----------------------------------------------------------------------------
(* Properties of the flushing setter *)

\* the two bits a button LED has in the mask after it was set to a state
BitsOfState(state) ==
    CASE state = "STRATCOM_LED_ON" -> 1
      [] state = "STRATCOM_LED_BLINK" -> 2
      [] state = "STRATCOM_LED_OFF" -> 0

\* the cached mask has the change a set-LED-state call with a asked for
Requested(before, after, a) ==
    \A i \in 0..7 :
        LedBits(after, i) = IF i < 7 /\ Bit(a[1], 4 ^ i) = 1
                            THEN BitsOfState(a[2]) ELSE LedBits(before, i)

\* C17: stratcom_set_button_led_state applies the change to the cached mask
\* and then makes one flush, whose result it returns; when the write fails it
\* returns error, the cache keeps the requested change and the dirty flag is
\* true.  A change made by either set-LED-state call stays: the dirty flag is
\* true after a set without flush and after a failed write, it becomes false
\* only by a successful write or a successful read-LED-state (or with a new
\* handle), and the mask changes only by a set-LED-state call or a successful
\* read-LED-state.
C17_ChangeStaysUntilFlushed ==
    [][ /\ op' = "stratcom_set_button_led_state" =>
            /\ Requested(led_button_state, led_button_state', args')
            /\ Len(hid_calls') = 1
            /\ hid_calls'[1].fn = "hid_send_feature_report"
            /\ LedStateOf(hid_calls'[1].data) = led_button_state'
            /\ ret' = IF hid_calls'[1].res = 3 THEN "STRATCOM_RET_SUCCESS"
                      ELSE "STRATCOM_RET_ERROR"
            /\ led_button_state_has_unflushed_changes' = (ret' = "STRATCOM_RET_ERROR")
        /\ op' = "stratcom_set_button_led_state_without_flushing" =>
            /\ Requested(led_button_state, led_button_state', args')
            /\ led_button_state_has_unflushed_changes'
        /\ (/\ device = "open" /\ device' = "open"
            /\ led_button_state_has_unflushed_changes
            /\ ~led_button_state_has_unflushed_changes')
           => /\ op' \in {"stratcom_set_button_led_state", "stratcom_flush_button_led_state",
                          "stratcom_read_button_led_state"}
              /\ ret' = "STRATCOM_RET_SUCCESS"
        /\ (/\ device = "open" /\ device' = "open"
            /\ led_button_state' # led_button_state)
           => \/ op' \in SetOps
              \/ op' = "stratcom_read_button_led_state" /\ ret' = "STRATCOM_RET_SUCCESS"
      ]_vars

\* button 1 was set to BLINK with a write that failed: the cache has the
\* change, the flag is set and the hardware holds another mask
C17_Witness ==
    /\ op = "stratcom_set_button_led_state"
    /\ args = <<STRATCOM_LEDBUTTON_1, "STRATCOM_LED_BLINK">>
    /\ ret = "STRATCOM_RET_ERROR"
    /\ hid_calls[1].res = -1
    /\ led_button_state_has_unflushed_changes
    /\ LedBits(led_button_state, 0) = 2
    /\ LedBits(HidLedMask, 0) = 1

----------------------------------------------------------------------------
(* Properties of appending to an event list *)

----------------------------------------------------------------------------
(* Properties of the handle an open returns *)

\* C19: stratcom_open_device_on_path returns a handle whenever hid_open_path
\* and the allocation of the handle succeed, whatever the two initial reads
\* return, and none when hid_open_path fails.  On the handle returned the dirty
\* flag is false exactly when the initial read of the LED mask succeeded, and
\* then the cache holds the hardware's mask; otherwise the cached mask is 0 and
\* the flag is true.  The cached input state is all zero, and the blink
\* interval is (0, 0) unless the initial read of it succeeded.
C19_HandleAfterOpen ==
    /\ \A res_led \in FeatureResults, res_blink \in FeatureResults :
          stratcom_open_device_on_path(TRUE, TRUE,
              res_led, <<1, hid_led[1], hid_led[2]>>,
              res_blink, <<2, hid_blink[1], hid_blink[2]>>).device = "open"
    /\ (op = "stratcom_open_device_on_path" /\ hid_calls[1].res = 0) => ret = "null"
    /\ (op = "stratcom_open_device_on_path" /\ ret = "open") =>
          /\ device = "open"
          /\ Len(hid_calls) = 3
          /\ hid_calls[1].fn = "hid_open_path" /\ hid_calls[1].res = 1
          /\ hid_calls[2].fn = "hid_get_feature_report" /\ hid_calls[2].data = <<1>>
          /\ hid_calls[3].fn = "hid_get_feature_report" /\ hid_calls[3].data = <<2>>
          /\ led_button_state_has_unflushed_changes <=> (hid_calls[2].res # 3)
          /\ led_button_state = IF hid_calls[2].res = 3 THEN HidLedMask ELSE 0
          /\ input_state = [buttons |-> 0, slider |-> "STRATCOM_SLIDER_UNKNOWN",
                             axisX |-> 0, axisY |-> 0, axisZ |-> 0]
          /\ stratcom_get_led_blink_interval(Dev) =
                IF hid_calls[3].res = 3 THEN hid_blink ELSE <<0, 0>>

\* a handle returned although the initial read of the LED mask failed: mask 0,
\* flag set, and the blink interval read from the hardware
C19_Witness ==
    /\ op = "stratcom_open_device_on_path"
    /\ ret = "open"
    /\ hid_calls[2].res = -1
    /\ hid_calls[3].res = 3
    /\ hid_led = <<6, 33>>
    /\ led_button_state = 0
    /\ led_button_state_has_unflushed_changes
    /\ blink_state = [on_time |-> 1, off_time |-> 1]

----------------------------------------------------------------------------
(* Properties of the iteration over the buttons *)

\* the buttons in iteration order, followed by the end of the range
ButtonsThenEnd == CanonicalButtons \o << STRATCOM_BUTTON_NONE >>

\* C20: a loop from stratcom_iterate_buttons_range_begin by
\* stratcom_iterate_buttons_range_increment reaches
\* stratcom_iterate_buttons_range_end after exactly 12 increments, and has then
\* visited button 1..6, plus, minus, shift1, shift2, shift3, rec once each in
\* this order; the increment of the end of the range, and of any value that
\* is none of the 12 buttons, is the end of the range.
C20_IterationEnds ==
    /\ Len(visited) <= 12
    /\ visited \o <<button_it>> = SubSeq(ButtonsThenEnd, 1, Len(visited) + 1)
    /\ (button_it = stratcom_iterate_buttons_range_end) <=> (Len(visited) = 12)
    /\ (op = "stratcom_iterate_buttons_range_increment") =>
          ret = IF \E i \in 1..12 : args[1] = CanonicalButtons[i]
                THEN ButtonsThenEnd[(CHOOSE i \in 1..12 : args[1] = CanonicalButtons[i]) + 1]
                ELSE stratcom_iterate_buttons_range_end

\* the loop has ended: its twelfth increment, of rec, gave the end of the range
C20_Witness ==
    /\ op = "stratcom_iterate_buttons_range_increment"
    /\ args = << STRATCOM_BUTTON_REC >>
    /\ ret = stratcom_iterate_buttons_range_end
    /\ button_it = stratcom_iterate_buttons_range_end
    /\ visited = CanonicalButtons

----------------------------------------------------------------------------
(* Properties of the LED getter *)

\* C21: stratcom_get_button_led_state returns OFF for the ALL and the NONE
\* selector whatever the cached mask; for a button LED it returns ON when the
\* on-bit is set, also when the blink-bit is set with it, BLINK when only the
\* blink-bit is set, and OFF when both are clear; and after a set-LED-state
\* call with ALL and state s it returns s for each of the 7 button LEDs.
C21_GetLedState ==
    /\ GetLed(led_button_state, STRATCOM_LEDBUTTON_ALL) = "STRATCOM_LED_OFF"
    /\ GetLed(led_button_state, STRATCOM_LEDBUTTON_NONE) = "STRATCOM_LED_OFF"
    /\ \A i \in 0..6 :
          GetLed(led_button_state, 4 ^ i) =
              CASE LedBits(led_button_state, i) \in {1, 3} -> "STRATCOM_LED_ON"
                [] LedBits(led_button_state, i) = 2 -> "STRATCOM_LED_BLINK"
                [] LedBits(led_button_state, i) = 0 -> "STRATCOM_LED_OFF"
    /\ (op \in SetOps /\ args[1] = STRATCOM_LEDBUTTON_ALL)
          => \A led \in ButtonLeds : GetLed(led_button_state, led) = args[2]

\* ALL was set to BLINK over a mask that had both bits of two button LEDs set:
\* every button LED blinks, and the ALL selector reads OFF
C21_Witness ==
    /\ op = "stratcom_set_button_led_state_without_flushing"
    /\ args = <<STRATCOM_LEDBUTTON_ALL, "STRATCOM_LED_BLINK">>
    /\ led_button_state = 10922
    /\ GetLed(led_button_state, STRATCOM_LEDBUTTON_REC) = "STRATCOM_LED_BLINK"
    /\ GetLed(led_button_state, STRATCOM_LEDBUTTON_ALL) = "STRATCOM_LED_OFF"

====
